---------------------------- MODULE Spec2Model ----------------------------
(***************************************************************************)
(* The real-time inference loop of gestures.ipynb ("Test in Real Time")    *)
(* and the keypoint encoder it calls.                                      *)
(*                                                                         *)
(* Program state: sequence (the sliding window), predictions (the raw      *)
(* argmax indices), sentence (the committed labels) and res (the last      *)
(* distribution returned by model.predict).                                *)
(* Environment: the camera feed and the signer.  A feed is a short cyclic  *)
(* pattern of MediaPipe detection results; a signer script is a cyclic     *)
(* pattern of blocks "gesture g held for r full windows".  On every full   *)
(* window the classifier returns any distribution of Dists whose argmax    *)
(* is the gesture being signed.  Probabilities are in percent.             *)
(* History variables: frames (frames read), calls (classifier calls), log   *)
(* (every label ever appended to sentence) and outcome (how the last frame  *)
(* ended).  Leaving the loop on 'q' changes none of these variables and is  *)
(* not an action of the model; drawing and display are left out.            *)
(***************************************************************************)
EXTENDS Integers, Sequences, FiniteSets, TLC

VARIABLES sequence, sentence, predictions, res,
          feed, script, frames,
          calls, log, outcome

vars == <<sequence, sentence, predictions, res, feed, script, frames,
          calls, log, outcome>>

---------------------------------------------------------------------------
(* Program constants *)

\* sequence_length = 30
sequence_length == 30

\* threshold = 0.5, in percent
threshold == 50

\* predictions[-10:]
HistoryView == 10

\* if len(sentence) > 5: sentence = sentence[-5:]
SentenceCap == 5

\* np.zeros(21*3): a hand has 21 landmarks
NumLandmarks == 21

\* actions = np.array(['hello', 'thanks', 'iloveyou'])
actions == <<"hello", "thanks", "iloveyou">>

\* colors = [(245,117,16), (117,245,16), (16,117,245)]
colors == <<<<245, 117, 16>>, <<117, 245, 16>>, <<16, 117, 245>>>>

(* Bound of the model: the number of frames read from the camera *)
MaxFrames == 63

---------------------------------------------------------------------------
(* Python and numpy primitives *)

\* s[-n:]
LastN(s, n) == IF Len(s) <= n THEN s ELSE SubSeq(s, Len(s) - n + 1, Len(s))

\* np.zeros(n)
zeros(n) == [i \in 1..n |-> 0]

\* np.argmax(r): the 0-based index of the first maximal entry
argmax(r) ==
    (CHOOSE i \in 1..Len(r) :
        /\ \A j \in 1..Len(r) : r[j] <= r[i]
        /\ \A j \in 1..(i - 1) : r[j] < r[i]) - 1

RECURSIVE SortedSeq(_)
SortedSeq(S) ==
    IF S = {} THEN <<>>
    ELSE LET m == CHOOSE x \in S : \A y \in S : x <= y
         IN  <<m>> \o SortedSeq(S \ {m})

\* np.unique(s): the sorted distinct values of s
np_unique(s) == SortedSeq({s[i] : i \in DOMAIN s})

\* np.array(rows).flatten(): row-major
RECURSIVE flatten(_)
flatten(rows) ==
    IF rows = <<>> THEN <<>> ELSE Head(rows) \o flatten(Tail(rows))

---------------------------------------------------------------------------
(* extract_keypoints(results): results is results.multi_hand_landmarks,    *)
(* <<>> when MediaPipe reports None, else a sequence of hands, each a      *)
(* sequence of landmarks [x, y, z].                                        *)

\* Mutant of extract_keypoints: the two hand slots concatenated in the wrong order
extract_keypoints_swapped(results) ==
    LET rows(hand) == [i \in 1..Len(hand) |-> <<hand[i].x, hand[i].y, hand[i].z>>]
        lh == IF Len(results) > 0 THEN flatten(rows(results[1]))
                                  ELSE zeros(NumLandmarks * 3)
        rh == IF Len(results) > 1 THEN flatten(rows(results[2]))
                                  ELSE zeros(NumLandmarks * 3)
    IN  rh \o lh

extract_keypoints(results) ==
    LET rows(hand) == [i \in 1..Len(hand) |-> <<hand[i].x, hand[i].y, hand[i].z>>]
        lh == IF results # <<>>
              THEN (IF Len(results) > 0 THEN flatten(rows(results[1]))
                                        ELSE zeros(NumLandmarks * 3))
              ELSE zeros(NumLandmarks * 3)
        rh == IF results # <<>>
              THEN (IF Len(results) > 1 THEN flatten(rows(results[2]))
                                        ELSE zeros(NumLandmarks * 3))
              ELSE zeros(NumLandmarks * 3)
    IN  lh \o rh

---------------------------------------------------------------------------
(* The environment *)

\* A detected hand: 21 landmarks with pairwise distinct non-zero coordinates
Hand(h) == [i \in 1..NumLandmarks |->
               [x |-> 1000 * h + 10 * i + 1,
                y |-> 1000 * h + 10 * i + 2,
                z |-> 1000 * h + 10 * i + 3]]

\* mediapipe_detection with max_num_hands=2: no hand, one hand or two hands
Detections ==
    {<<>>, <<Hand(1)>>, <<Hand(2)>>, <<Hand(1), Hand(2)>>, <<Hand(2), Hand(1)>>}

\* Camera feeds: a steady scene, or two scenes in alternation
Feeds ==
    {<<d>> : d \in Detections}
    \cup {<<<<>>, <<Hand(1)>>>>, <<<<Hand(1)>>, <<Hand(1), Hand(2)>>>>,
          <<<<Hand(2), Hand(1)>>, <<>>>>}

\* The detection of frame number k (k >= 1)
DetectionAt(k) == feed[((k - 1) % Len(feed)) + 1]

\* How long the signer holds a gesture, in full windows
Holds == {1, 2, HistoryView}

Gestures == 0..(Len(actions) - 1)

\* Signer scripts: one gesture throughout, two gestures in alternation, or
\* the three gestures in a cycle
Scripts ==
    {<<[g |-> a, r |-> 1]>> : a \in Gestures}
    \cup {<<[g |-> p[1], r |-> ra], [g |-> p[2], r |-> rb]>> :
            p \in {q \in Gestures \X Gestures : q[1] # q[2]},
            ra \in Holds, rb \in Holds}
    \cup {<<[g |-> p[1], r |-> ra], [g |-> p[2], r |-> 1], [g |-> p[3], r |-> rc]>> :
            p \in {q \in Gestures \X Gestures \X Gestures :
                      q[1] # q[2] /\ q[2] # q[3] /\ q[3] # q[1]},
            ra \in {1, HistoryView}, rc \in {1, HistoryView}}

\* The steady session: one hand held still, signing 'hello' throughout
SteadyFeed == <<<<Hand(1)>>>>
SteadyScript == <<[g |-> 0, r |-> 1]>>

\* Sessions explored: every feed with a signer who keeps signing 'hello',
\* and every signer script in front of a one-hand steady scene
Sessions ==
    {<<f, s>> \in Feeds \X Scripts :
        \/ s = SteadyScript
        \/ f = SteadyFeed}

RECURSIVE Period(_)
Period(s) == IF s = <<>> THEN 0 ELSE Head(s).r + Period(Tail(s))

RECURSIVE BlockAt(_, _)
BlockAt(s, pos) ==
    IF pos < Head(s).r THEN Head(s).g ELSE BlockAt(Tail(s), pos - Head(s).r)

\* The gesture signed during the k-th full window (k >= 1)
GestureAt(k) == BlockAt(script, (k - 1) % Period(script))

\* model.predict(...)[0] of a model trained on the three actions
Dists ==
    {<<80, 10, 10>>, <<90, 10, 0>>, <<50, 50, 0>>,
     <<10, 90, 0>>, <<49, 51, 0>>, <<10, 45, 45>>,
     <<10, 10, 80>>, <<25, 25, 50>>}

---------------------------------------------------------------------------
(* The loop *)

Init ==
    /\ sequence = <<>>
    /\ sentence = <<>>
    /\ predictions = <<>>
    /\ res = <<>>
    /\ \E ses \in Sessions : feed = ses[1] /\ script = ses[2]
    /\ frames = 0
    /\ calls = 0
    /\ log = <<>>
    /\ outcome = "start"

Running == outcome \in {"start", "warmup", "voted", "committed"}

\* Mutant of push: the slice keeps the oldest frames, sequence[:sequence_length]
push_keep_first(seq, keypoints) ==
    SubSeq(Append(seq, keypoints), 1,
           IF Len(seq) + 1 <= sequence_length THEN Len(seq) + 1 ELSE sequence_length)

\* sequence.append(keypoints); sequence = sequence[-sequence_length:]
push(seq, keypoints) == LastN(Append(seq, keypoints), sequence_length)

Pushed == push(sequence, extract_keypoints(DetectionAt(frames + 1)))

\* Mutant of view: the slice is one entry too long
view_eleven(preds) == LastN(preds, HistoryView + 1)

\* predictions[-10:]
view(preds) == LastN(preds, HistoryView)

\* Mutant of gate: the threshold test is not strict
gate_at_threshold(preds, r) ==
    /\ np_unique(view(preds))[1] = argmax(r)
    /\ r[argmax(r) + 1] >= threshold

\* np.unique(predictions[-10:])[0] == np.argmax(res), then res[np.argmax(res)] > threshold
gate(preds, r) ==
    /\ np_unique(view(preds))[1] = argmax(r)
    /\ r[argmax(r) + 1] > threshold

\* Mutant of append_label: the repeat test looks at sentence[0]
append_label_vs_first(sent, r) ==
    IF Len(sent) > 0
    THEN (IF actions[argmax(r) + 1] # sent[1]
          THEN Append(sent, actions[argmax(r) + 1])
          ELSE sent)
    ELSE Append(sent, actions[argmax(r) + 1])

\* Mutant of append_label: no repeat test
append_label_always(sent, r) == Append(sent, actions[argmax(r) + 1])

\* the append of lines 387-391
append_label(sent, r) ==
    IF Len(sent) > 0
    THEN (IF actions[argmax(r) + 1] # sent[Len(sent)]
          THEN Append(sent, actions[argmax(r) + 1])
          ELSE sent)
    ELSE Append(sent, actions[argmax(r) + 1])

\* Mutant of cap_sentence: the cap is one entry too long
cap_sentence_six(sent) ==
    IF Len(sent) > SentenceCap + 1 THEN LastN(sent, SentenceCap + 1) ELSE sent

\* keeping only last 5 actions in sentence
cap_sentence(sent) ==
    IF Len(sent) > SentenceCap THEN LastN(sent, SentenceCap) ELSE sent

\* Mutant of window_full: the classifier runs one frame early
window_full_early(seq) == Len(seq) >= sequence_length - 1

\* if len(sequence) == sequence_length
window_full(seq) == Len(seq) = sequence_length

\* A frame on which the window is not yet full
WarmUpFrame ==
    /\ Running
    /\ frames < MaxFrames
    /\ ~window_full(Pushed)
    /\ sequence' = Pushed
    /\ frames' = frames + 1
    /\ outcome' = "warmup"
    /\ UNCHANGED <<sentence, predictions, res, feed, script, calls, log>>

\* prob_viz(res, actions, image, colors) indexes colors[num] and actions[num]
\* for every entry of res
prob_viz_raises(r) == Len(r) > Len(colors) \/ Len(r) > Len(actions)

\* Lines 379-398 on a full window, the classifier having returned r
Vote(r) ==
    IF argmax(r) >= Len(actions)
    THEN \* print(actions[np.argmax(res)]) raises IndexError
         /\ sequence' = Pushed
         /\ res' = r
         /\ outcome' = "index_error"
         /\ frames' = frames + 1
         /\ calls' = calls + 1
         /\ UNCHANGED <<predictions, sentence, log, feed, script>>
    ELSE LET preds == Append(predictions, argmax(r))
             sent  == IF gate(preds, r) THEN append_label(sentence, r)
                                        ELSE sentence
         IN  /\ sequence' = Pushed
             /\ res' = r
             /\ predictions' = preds
             /\ sentence' = cap_sentence(sent)
             /\ log' = IF sent # sentence THEN Append(log, sent[Len(sent)])
                                          ELSE log
             /\ outcome' = IF prob_viz_raises(r) THEN "viz_error"
                           ELSE IF sent # sentence THEN "committed"
                           ELSE "voted"
             /\ frames' = frames + 1
             /\ calls' = calls + 1
             /\ UNCHANGED <<feed, script>>

\* A frame on which the window is full and the classifier returns a
\* distribution over the three actions
FullWindowFrame ==
    /\ Running
    /\ frames < MaxFrames
    /\ window_full(Pushed)
    /\ \E r \in Dists :
         /\ argmax(r) = GestureAt(calls + 1)
         /\ Vote(r)

Next == WarmUpFrame \/ FullWindowFrame

Spec == Init /\ [][Next]_vars

---------------------------------------------------------------------------
(* The scenario of a steady signer: one hand held still in every frame     *)
(* and the classifier returning [0.8, 0.1, 0.1] on every full window       *)

InitSteady ==
    /\ Init
    /\ feed \in {<<<<Hand(1)>>>>, <<<<Hand(2)>>>>}
    /\ script = SteadyScript

SteadyFullWindowFrame ==
    /\ Running
    /\ frames < MaxFrames
    /\ window_full(Pushed)
    /\ Vote(<<80, 10, 10>>)

NextSteady == WarmUpFrame \/ SteadyFullWindowFrame

SpecSteady == InitSteady /\ [][NextSteady]_vars

---------------------------------------------------------------------------
(* A classifier that breaks its contract: model.predict raises, or the     *)
(* loaded model has another number of outputs than there are actions       *)

Malformed == {<<90, 10>>, <<40, 60>>, <<70, 10, 10, 10>>, <<10, 10, 10, 70>>}

InitFaults ==
    /\ Init
    /\ feed = SteadyFeed
    /\ Period(script) <= 2

\* model.predict raises: the exception leaves the loop
PredictRaises ==
    /\ Running
    /\ frames < MaxFrames
    /\ window_full(Pushed)
    /\ sequence' = Pushed
    /\ frames' = frames + 1
    /\ calls' = calls + 1
    /\ outcome' = "predict_error"
    /\ UNCHANGED <<sentence, predictions, res, feed, script, log>>

\* model.predict returns a distribution of the wrong length
MalformedFrame ==
    /\ Running
    /\ frames < MaxFrames
    /\ window_full(Pushed)
    /\ \E r \in Malformed :
         /\ argmax(r) = GestureAt(calls + 1) \/ argmax(r) >= Len(actions)
         /\ Vote(r)

NextFaults == WarmUpFrame \/ FullWindowFrame \/ PredictRaises \/ MalformedFrame

SpecFaults == InitFaults /\ [][NextFaults]_vars

---------------------------------------------------------------------------
(* Properties *)

Last(s) == s[Len(s)]

\* The number of entries of s equal to l
Count(l, s) == Cardinality({i \in DOMAIN s : s[i] = l})

\* The number of pushes still in the window after k frames
Held(k) == IF k < sequence_length THEN k ELSE sequence_length

\* The last element of the sentence as it was before the last frame
PrevLast ==
    IF outcome = "committed"
    THEN (IF Len(log) >= 2 THEN log[Len(log) - 1] ELSE "")
    ELSE (IF Len(log) >= 1 THEN log[Len(log)] ELSE "")

\* C1: in every state of the real-time loop the sentence has no two adjacent
\* equal labels, also after the front-eviction that enforces the cap.
C1_NoAdjacentEqual ==
    \A i \in 1..(Len(sentence) - 1) : sentence[i] # sentence[i + 1]

\* A label has just been appended and the eviction has dropped older ones
C1_Witness ==
    /\ outcome = "committed"
    /\ Len(log) > SentenceCap
    /\ Len(sentence) = SentenceCap

\* C2: a label is committed on a full-window frame only if it is the most
\* frequent label among the last 10 raw predictions (the current one
\* included) and its probability is above the threshold.
C2_CommitOnlyMostFrequent ==
    outcome = "committed" =>
        /\ \A l \in Gestures :
              Count(l, view(predictions)) <= Count(argmax(res), view(predictions))
        /\ res[argmax(res) + 1] > threshold

\* C3: after k frames the window holds exactly the last min(k, 30) pushed
\* keypoint vectors in arrival order; it never exceeds 30 entries and stays
\* full from the 30th push on.
C3_WindowHoldsLastN ==
    /\ Len(sequence) = Held(frames)
    /\ Len(sequence) <= sequence_length
    /\ \A i \in 1..Held(frames) :
          sequence[i] = extract_keypoints(DetectionAt(frames - Held(frames) + i))

\* The window has evicted frames of a feed that alternates two scenes
C3_Witness ==
    /\ frames = sequence_length + 3
    /\ Len(feed) = 2
    /\ sequence[1] # sequence[2]

\* C4: the classifier is invoked once on every frame whose window is full
\* after the push and never during the first 29 frames, on which neither
\* the predictions nor the sentence change; the predictions are in the order
\* of the frames that produced them.
C4_ClassifierOnlyOnFullWindow ==
    /\ calls = (IF frames < sequence_length THEN 0 ELSE frames - sequence_length + 1)
    /\ frames < sequence_length => predictions = <<>> /\ sentence = <<>> /\ res = <<>>
    /\ Len(predictions) = calls
    /\ \A i \in 1..Len(predictions) : predictions[i] = GestureAt(i)

\* Three full windows have been classified, the first two with different results
C4_Witness ==
    /\ frames = sequence_length + 2
    /\ calls = 3
    /\ predictions[1] # predictions[2]

\* C5: at the end of every frame the sentence has at most 5 entries: the 5
\* most recently committed labels in commit order (all of them while there
\* are at most 5).
C5_SentenceCapped ==
    /\ Len(sentence) <= SentenceCap
    /\ sentence = LastN(log, SentenceCap)

\* A sixth label has been committed and the oldest one evicted
C5_Witness ==
    /\ Len(log) = SentenceCap + 1
    /\ sentence = SubSeq(log, 2, SentenceCap + 1)

\* C6 as stated: the stored prediction history never holds more than 10 entries.
C6_HistoryBounded == Len(predictions) <= HistoryView

\* C6 as amended: the predictions list grows by one entry per classified
\* window and is never truncated; the slice predictions[-10:] that the
\* commit test reads holds the last min(k, 10) argmax labels in order.
C6_ViewBounded ==
    LET v == view(predictions)
        n == IF calls < HistoryView THEN calls ELSE HistoryView
    IN  /\ Len(predictions) = calls
        /\ Len(v) = n
        /\ \A i \in 1..n : v[i] = GestureAt(calls - n + i)

\* The eleventh prediction has pushed the first one out of the slice
C6_Witness ==
    /\ calls = HistoryView + 1
    /\ Len(predictions) = HistoryView + 1
    /\ view(predictions)[1] # predictions[1]

\* C7: a classify call that fails, or that returns a distribution not over
\* exactly the three actions, ends the frame in an error, commits nothing
\* and leaves window, predictions and sentence as they were before the call.
C7_FailedClassifyChangesNothing ==
    [][(calls' = calls + 1 /\ (outcome' = "predict_error" \/ Len(res') # Len(actions)))
         => /\ outcome' \in {"predict_error", "index_error", "viz_error"}
            /\ sequence' = Pushed
            /\ predictions' = predictions
            /\ sentence' = sentence]_vars

\* C8: with the same one-hand detection in every frame and [0.8, 0.1, 0.1]
\* on every full window, the sentence is empty before the 30th frame and is
\* exactly ['hello'] from the 30th frame on.
C8_SteadySentence ==
    sentence = IF frames < sequence_length THEN <<>> ELSE <<actions[1]>>

\* Ten more full windows after the first one
C8_Witness ==
    /\ frames = sequence_length + 10
    /\ calls = 11
    /\ sentence = <<"hello">>
    /\ outcome = "voted"

\* C9: the vector pushed for a frame has 126 entries; entries 0..62 are the
\* first hand's landmarks as x, y, z in landmark order, entries 63..125 the
\* second hand's, and the slot of an absent hand is all zeros.
C9_KeypointVector ==
    frames > 0 =>
        LET d == DetectionAt(frames)
            v == Last(sequence)
        IN  /\ Len(v) = 2 * NumLandmarks * 3
            /\ \A slot \in 1..2 : \A j \in 1..NumLandmarks :
                  LET at == (slot - 1) * NumLandmarks * 3 + (j - 1) * 3
                  IN  IF slot <= Len(d)
                      THEN /\ v[at + 1] = d[slot][j].x
                           /\ v[at + 2] = d[slot][j].y
                           /\ v[at + 3] = d[slot][j].z
                      ELSE v[at + 1] = 0 /\ v[at + 2] = 0 /\ v[at + 3] = 0

\* A frame without a hand has been pushed after a frame with two hands
C9_Witness ==
    /\ frames = 2
    /\ DetectionAt(1) = <<Hand(2), Hand(1)>>
    /\ DetectionAt(2) = <<>>
    /\ Last(sequence) = zeros(126)
    /\ sequence[1] # zeros(126)

=============================================================================
